---- MODULE Spec2Model ----
(***************************************************************************)
(* fotingo: the command pipeline of FotingoCommand.run (validation gate,   *)
(* then the start command's cmd), the bulk issue lookup of                 *)
(* getLocalChangesInformation, and Git.createBranchAndStashChanges.        *)
(*                                                                         *)
(* Observables are modelled by their notifications.  A handler runs to     *)
(* its next asynchronous wait in one action: everything rxjs delivers      *)
(* synchronously (of(...), a completed merge, switchMap's projection) is   *)
(* part of the action that triggers it.                                    *)
(***************************************************************************)
EXTENDS Integers, Sequences, FiniteSets, TLC

\* Largest number of validations getValidations may register.
MaxValidations == 2
\* Largest number of issue keys getLocalChangesInformation is given (those
\* referenced in the branch's commits plus those supplied explicitly).
MaxIssues == 3
\* Largest number of remotes the repository has.
MaxRemotes == 3
\* Number of calls of the cached method.
MaxCalls == 2
\* Last tick of the clock, in minutes.
MaxTime == 2

Undefined == "undefined"

--------------------------------------------------------------------------
(* Inputs *)

IssueIds == {"ABC-123"}
NewIssueKey == "ABC-124"
Hashes == {"547433c", "9f1e2d0"}

\* FotingoArguments as far as getCommandData reads them.
ArgsSet ==
  [create : BOOLEAN, issueId : IssueIds \cup {Undefined}, noBranchIssue : BOOLEAN]

--------------------------------------------------------------------------
(* Pure functions of FotingoCommand.ts *)

\* ifElse(equals(true), always(undefined), () => message)
returnIfFalse_always(message, value) == Undefined
returnIfFalse_never(message, value) == message
returnIfFalse(message, value) == IF value = "true" THEN Undefined ELSE message

\* The catchError/map of isGitRepo over the outcome of git.getRootDir():
\* success maps to true, an error to error.code && error.code !== NOT_A_GIT_REPO.
isGitRepo(rootDir) ==
  CASE rootDir = "ok" -> "true"
    [] rootDir = "NOT_A_GIT_REPO" -> "false"
    [] rootDir = "no_code" -> Undefined
    [] OTHER -> "true"

\* The validation registered at position i: the two of the base class, then
\* the ones a command adds.
ValidationKind(i) ==
  CASE i = 1 -> "isGitRepo"
    [] i = 2 -> "defaultBranchExist"
    [] OTHER -> "custom"

ValidationMessage(i) ==
  CASE i = 1 -> "Fotingo needs to run inside a git repository"
    [] i = 2 -> "Couldn't find any branch that matched master to use as base branch"
    [] OTHER -> "custom validation failed"

\* The call a validation makes when it is invoked.
ValidationCall(i) ==
  CASE i = 1 -> <<"getRootDir">>
    [] i = 2 -> <<"doesBranchExist", "master">>
    [] OTHER -> <<"customValidation">>

\* What the promise behind validation i can settle with.
ValidationOutcomes(i) ==
  IF ValidationKind(i) = "isGitRepo"
  THEN {"ok", "NOT_A_GIT_REPO", "GIT_COMMAND_FAILED", "no_code"}
  ELSE {"true", "false", "rejected"}

\* The notification validation i sends for outcome r.
ValidationEmission(i, r) ==
  IF ValidationKind(i) = "isGitRepo"
  THEN [kind |-> "next", value |-> isGitRepo(r), raw |-> r]
  ELSE IF r = "rejected"
       THEN [kind |-> "error", value |-> "rejected", raw |-> r]
       ELSE [kind |-> "next", value |-> r, raw |-> r]

Pending == [kind |-> "pending", value |-> "none", raw |-> "none"]

\* validate merges of(undefined) after the validations, so that last() has a
\* value when getValidations returns an empty list.
addsExtraElement_missing == FALSE
addsExtraElement == TRUE

\* switchMap's projection in validate: undefined passes, a message throws.
validateProject_pass(message) == "next"
validateProject(message) == IF message = Undefined THEN "next" ELSE "throw"

\* last(): validate emits when merge has completed (no source left pending)
\* and a value was seen.
lastEmits_first(pendingLeft, seen) == seen
lastEmits_never(pendingLeft, seen) == FALSE
lastEmits(pendingLeft, seen) == pendingLeft = 0 /\ seen

\* A notification reaches validate only while its subscription is live; an
\* errored or completed merge has unsubscribed from its sources.
isSubscribed_always(state) == TRUE
isSubscribed(state) == state = "active"

--------------------------------------------------------------------------
(* Pure functions of the start command *)

getCommandData(a) ==
  [git |-> [createBranch |-> ~a.noBranchIssue],
   issue |-> IF a.create
             THEN [title |-> "title", type |-> "Story"]
             ELSE [id |-> a.issueId]]

\* ifElse(has('id'), getIssue . prop('id'), createIssueForCurrentUser) . prop('issue')
getOrCreateIssue_create(data) == <<"createIssueForCurrentUser", "title">>
getOrCreateIssue(data) ==
  IF "id" \in DOMAIN data.issue
  THEN <<"getIssue", data.issue.id>>
  ELSE <<"createIssueForCurrentUser", data.issue.title>>

setIssueInProgress(i) == <<"setIssueStatus", "IN_PROGRESS", i.key>>

shouldCreateBranch_always(d) == TRUE
shouldCreateBranch(d) == d.commandData.git.createBranch = TRUE

getBranchNameForIssue(i) ==
  CASE i.key = "ABC-123" -> "f/abc-123_title"
    [] i.key = "ABC-124" -> "f/abc-124_title"
    [] OTHER -> "f/unknown"

NoIssue == [key |-> "none", status |-> "none"]
NoResult == [kind |-> "none", issue |-> NoIssue]
VoidResult == [kind |-> "void", issue |-> NoIssue]

justReturnTheIssue(d) == [kind |-> "issue", issue |-> d.issue]

--------------------------------------------------------------------------
(* Git.createBranchAndStashChanges *)

StashArgs == <<"stash", "save", "--include-untracked", "Auto generated by fotingo">>
RemoteBranch == "remotes/origin/master"

shouldStash_always(dirty) == TRUE
shouldStash_never(dirty) == FALSE
shouldStash(dirty) == dirty

\* The branch point: the latest commit of the remote base branch as the
\* repository knows it (git log -n1 remotes/origin/master), not HEAD.
latestCommit_head(remoteBranchRef, head) == head
latestCommit(remoteBranchRef, head) == remoteBranchRef

--------------------------------------------------------------------------
(* The end of FotingoCommand.run *)

\* renderUi's waitUntilExit: rejects when the command's observable errors.
waitUntilExit(step) == IF step = "error" THEN "rejected" ELSE "resolved"

\* try { await waitUntilExit() } catch { process.exit(1) }; a run that
\* returns leaves the process to end with code 0.
exitCodeOf_zero(outcome) == 0
exitCodeOf(outcome) == IF outcome = "rejected" THEN 1 ELSE 0

--------------------------------------------------------------------------
(* Pure functions of getLocalChangesInformation *)

LcKeys == {"ABC-1", "ABC-2", "wip"}

\* Tracker.isValidIssueName: the format check against the key pattern.
isValidIssueName(k) == k \in {"ABC-1", "ABC-2"}

\* if (!tracker.enabled) return of({ branchInfo, issues: [] })
trackerEnabled_always(d) == TRUE
trackerEnabled(d) == d.enabled

\* concat(branchInfo.issues.map(prop('issue')), issues)
allIssues(d) == d.branchIssues \o d.issues

\* allIssues.filter((issue) => this.tracker.isValidIssueName(issue))
validIssues_unfiltered(keys) == keys
validIssues(keys) == SelectSeq(keys, isValidIssueName)

\* catchError of a lookup: a 404 completes the lookup empty, anything else
\* is thrown again.
catchLookupError_rethrow(code) == "throw"
catchLookupError_swallow(code) == "EMPTY"
catchLookupError(code) == IF code = "404" THEN "EMPTY" ELSE "throw"

\* reduce's accumulator: (accumulator, value) => [...accumulator, value]
accumulate(accumulator, value) == Append(accumulator, value)

\* Sequences of at most n keys.
KeySeqs(n) == UNION {[1..m -> LcKeys] : m \in 0..n}

\* The data argument: a pair [branchInfo, {issues, tracker}] or a bare
\* branchInfo, for which issues defaults to [] and the tracker to enabled.
LcInputs ==
  {d \in [isArray : {TRUE}, branchIssues : KeySeqs(MaxIssues),
           issues : KeySeqs(MaxIssues), enabled : BOOLEAN] :
     Len(d.branchIssues) + Len(d.issues) <= MaxIssues}
  \cup
  {[isArray |-> FALSE, branchIssues |-> b, issues |-> <<>>, enabled |-> TRUE] :
     b \in KeySeqs(MaxIssues)}

--------------------------------------------------------------------------
(* Git.getRemote *)

RemoteNames == {"origin", "upstream", "fork"}

\* The remotes git lists, in its order; remote names are unique.
RemoteLists ==
  {r \in UNION {[1..m -> RemoteNames] : m \in 0..MaxRemotes} :
     \A i, j \in 1..Len(r) : r[i] = r[j] => i = j}

NoRemoteResult == [kind |-> "none", remote |-> "none"]

\* The remote called name, else the first remote, else an error.
getRemote_strict(rs, name) ==
  IF \E i \in 1..Len(rs) : rs[i] = name
  THEN [kind |-> "ok", remote |-> name]
  ELSE [kind |-> "error", remote |-> "The repository does not have a remote"]
getRemote(rs, name) ==
  IF \E i \in 1..Len(rs) : rs[i] = name
  THEN [kind |-> "ok", remote |-> name]
  ELSE IF Len(rs) > 0
       THEN [kind |-> "ok", remote |-> rs[1]]
       ELSE [kind |-> "error", remote |-> "The repository does not have a remote"]

--------------------------------------------------------------------------
(* cacheable.ts *)

CacheArgs == {"ABC-1", "ABC-2"}

\* What the decorated method can resolve with for an argument: an object, or
\* a falsy value (0, '', false, null).
MethodResults(a) == {[of |-> a, js |-> "object"], [of |-> a, js |-> "falsy"]}

NoValue == [of |-> "none", js |-> "undefined"]

\* if (cachedValue)
truthy(v) == v.js = "object"

NoEntry == [value |-> NoValue, expires |-> -1]

\* keyv.set(key, result, minutes ? minutes * 60 * 1000 : undefined), with the
\* clock in minutes: no minutes, no expiry (-1).
entry(v, m, time) == [value |-> v, expires |-> IF m # 0 THEN time + m ELSE -1]

\* keyv.get(key): the value of an entry that has not expired, else undefined.
keyvGet(e, time) ==
  IF e = NoEntry \/ (e.expires # -1 /\ time > e.expires) THEN NoValue ELSE e.value

\* The store after method.call has rejected: the await throws before
\* keyv.set, so nothing is written.
storeOnFailure_cached(st, a) ==
  [st EXCEPT ![a] = [value |-> [of |-> "error", js |-> "object"], expires |-> -1]]
storeOnFailure(st, a) == st

\* keyv.clear()
clearStore_keep(st) == st
clearStore(st) == [k \in DOMAIN st |-> NoEntry]

IdleCall ==
  [pc |-> "idle", arg |-> "none", cached |-> NoValue, result |-> NoValue,
   invoked |-> FALSE, liveAtStart |-> FALSE, hit |-> FALSE,
   readAfterClear |-> FALSE, clearedDuring |-> FALSE,
   nextAfterFailure |-> FALSE]

--------------------------------------------------------------------------
VARIABLES
  args,            \* the command's arguments
  registered,      \* the number of validations getValidations returns
  vresult,         \* per validation: Pending or the notification it sent
  resolvedOrder,   \* the validations in the order their promises settled
  validateState,   \* "idle", "active", "completed", "error"
  hasValue,        \* last() has seen a value
  validateErrors,  \* the errors validate has sent downstream
  runCmdCalls,     \* how often runCmd was invoked
  pc,              \* the pipeline's step
  calls,           \* every tracker and git call, in call order
  issue,           \* the issue flowing through cmd
  result,          \* what the pipeline emitted
  gitPc,           \* the step of createBranchAndStashChanges
  branchName,      \* its argument
  worktreeDirty,   \* the working tree has uncommitted changes
  stashList,       \* the stash entries
  localBranchExists, \* a branch of the requested name exists
  remoteTip,       \* the base branch's tip on the remote
  remoteRef,       \* remotes/origin/master as last fetched
  localHead,       \* HEAD
  latestHash,      \* what git log -n1 returned
  checkedOut,      \* the branch created, if any
  lcData,          \* the argument of getLocalChangesInformation
  lcState,         \* "idle", "active", "done", "error"
  getIssueCalls,   \* the keys getIssue was called with, in call order
  nameChecks,      \* the keys isValidIssueName was called with, in call order
  lookups,         \* per call: "pending", "ok" or the status code it failed with
  lcAcc,           \* reduce's accumulator
  lcResult,        \* the LocalChanges emitted
  exitCode,        \* the process's exit code, -1 while it runs
  remotes,         \* the remotes of the repository
  remoteName,      \* the argument of getRemote
  remoteState,     \* "idle", "listing", "done"
  remoteResult,    \* what getRemote settled with
  isCacheDisabled, \* FOTINGO_DISABLE_CACHE is set
  minutes,         \* the decorator's minutes option, 0 when not given
  now,             \* the clock, in minutes
  keyv,            \* the store: per key its entry
  cachedCalls,     \* per call of cachedFunction: its position and what it saw
  produced,        \* per key: the values the method has resolved with
  clearedNoWrite,  \* per key: cleared and not written since
  failedNoCall     \* per key: the method rejected and no call was made since

runVars ==
  <<args, registered, vresult, resolvedOrder, validateState, hasValue,
    validateErrors, runCmdCalls, pc, calls, issue, result>>
gitVars ==
  <<gitPc, branchName, worktreeDirty, stashList, localBranchExists, remoteTip,
    remoteRef, localHead, latestHash, checkedOut>>
lcVars == <<lcData, lcState, getIssueCalls, nameChecks, lookups, lcAcc, lcResult>>
remoteVars == <<remotes, remoteName, remoteState, remoteResult>>
cacheVars ==
  <<isCacheDisabled, minutes, now, keyv, cachedCalls, produced, clearedNoWrite,
    failedNoCall>>
vars == <<runVars, gitVars, lcVars, exitCode, remoteVars, cacheVars>>

--------------------------------------------------------------------------
getValidations == 1..registered

PendingValidations == {i \in getValidations : vresult[i] = Pending}

NoLocalChanges == [branchIssues |-> <<>>, issues |-> <<>>]

\* getLocalChangesInformation has not been called.
LcIdle ==
  /\ lcState = "idle"
  /\ getIssueCalls = <<>>
  /\ nameChecks = <<>>
  /\ lookups = <<>>
  /\ lcAcc = <<>>
  /\ lcResult = NoLocalChanges

\* getRemote has not been called.
RemoteIdle ==
  /\ remotes = <<>>
  /\ remoteName = "origin"
  /\ remoteState = "idle"
  /\ remoteResult = NoRemoteResult

\* No cached method has been called and the store is empty.
CacheIdle ==
  /\ isCacheDisabled = FALSE
  /\ minutes = 0
  /\ now = 0
  /\ keyv = [k \in CacheArgs |-> NoEntry]
  /\ cachedCalls = [c \in 1..MaxCalls |-> IdleCall]
  /\ produced = [k \in CacheArgs |-> {}]
  /\ clearedNoWrite = [k \in CacheArgs |-> FALSE]
  /\ failedNoCall = [k \in CacheArgs |-> FALSE]

Init ==
  /\ RemoteIdle
  /\ CacheIdle
  /\ lcData = [isArray |-> FALSE, branchIssues |-> <<>>, issues |-> <<>>, enabled |-> TRUE]
  /\ LcIdle
  /\ args \in ArgsSet
  /\ registered \in 0..MaxValidations
  /\ vresult = [i \in getValidations |-> Pending]
  /\ resolvedOrder = <<>>
  /\ validateState = "idle"
  /\ hasValue = FALSE
  /\ validateErrors = <<>>
  /\ runCmdCalls = 0
  /\ pc = "init"
  /\ calls = <<>>
  /\ issue = NoIssue
  /\ result = NoResult
  /\ gitPc = "idle"
  /\ branchName = "none"
  /\ worktreeDirty \in BOOLEAN
  /\ stashList = <<>>
  /\ localBranchExists \in BOOLEAN
  /\ remoteTip \in Hashes
  /\ remoteRef \in Hashes
  /\ localHead \in Hashes
  /\ latestHash = "none"
  /\ checkedOut = <<>>
  /\ exitCode = -1

\* cmd with the status transition started from the id at subscription, beside
\* the issue resolution instead of after it.
cmd_eager(c) ==
  /\ runCmdCalls' = runCmdCalls + 1
  /\ calls' = c \o <<getOrCreateIssue(getCommandData(args)),
                      <<"setIssueStatus", "IN_PROGRESS", args.issueId>>>>
  /\ pc' = "resolving"

\* Subscription of cmd's pipeline: commandData$ emits synchronously and
\* switchMap calls getOrCreateIssue; c is the call log so far.
cmd(c) ==
  /\ runCmdCalls' = runCmdCalls + 1
  /\ calls' = Append(c, getOrCreateIssue(getCommandData(args)))
  /\ pc' = "resolving"

\* validate has received the message m of one source; left is the number of
\* sources still pending after it, c the call log so far.
validateNext(m, left, c) ==
  IF validateProject(m) = "throw"
  THEN /\ validateState' = "error"
       /\ validateErrors' = Append(validateErrors, m)
       /\ pc' = "error"
       /\ calls' = c
       /\ UNCHANGED <<hasValue, runCmdCalls>>
  ELSE /\ hasValue' = TRUE
       /\ validateErrors' = validateErrors
       /\ IF lastEmits(left, TRUE)
          THEN validateState' = "completed" /\ cmd(c)
          ELSE /\ validateState' = "active"
               /\ pc' = "validating"
               /\ calls' = c
               /\ runCmdCalls' = runCmdCalls

\* FotingoCommand.run: renderUi invokes cmd, which builds validate (calling
\* every validation) and subscribes; of(undefined) is delivered at once.
run ==
  /\ pc = "init"
  /\ LET started == [i \in getValidations |-> ValidationCall(i)]
     IN IF addsExtraElement
        THEN validateNext(Undefined, registered, started)
        ELSE IF registered = 0
        THEN \* a merge of nothing completes empty and last() throws EmptyError
             /\ validateState' = "error"
             /\ validateErrors' = <<"EmptyError">>
             /\ pc' = "error"
             /\ calls' = started
             /\ UNCHANGED <<hasValue, runCmdCalls>>
        ELSE /\ validateState' = "active"
             /\ pc' = "validating"
             /\ calls' = started
             /\ UNCHANGED <<hasValue, validateErrors, runCmdCalls>>
  /\ UNCHANGED <<args, registered, vresult, resolvedOrder, issue, result>>
  /\ UNCHANGED gitVars
  /\ UNCHANGED <<lcVars, exitCode, remoteVars, cacheVars>>

\* The promise of validation i settles with outcome r.
ResolveValidation(i, r) ==
  /\ pc # "init"
  /\ exitCode = -1
  /\ vresult[i] = Pending
  /\ LET em == ValidationEmission(i, r)
         left == Cardinality(PendingValidations \ {i})
     IN /\ vresult' = [vresult EXCEPT ![i] = em]
        /\ resolvedOrder' = Append(resolvedOrder, i)
        /\ IF ~isSubscribed(validateState)
           THEN UNCHANGED <<validateState, hasValue, validateErrors, runCmdCalls,
                            pc, calls>>
           ELSE IF em.kind = "error"
           THEN /\ validateState' = "error"
                /\ validateErrors' = Append(validateErrors, em.value)
                /\ pc' = "error"
                /\ UNCHANGED <<hasValue, runCmdCalls, calls>>
           ELSE validateNext(returnIfFalse(ValidationMessage(i), em.value), left, calls)
  /\ UNCHANGED <<args, registered, issue, result>>
  /\ UNCHANGED gitVars
  /\ UNCHANGED <<lcVars, exitCode, remoteVars, cacheVars>>

\* What the tracker answers to the issue resolution call: the issue asked
\* for (getIssue of a known id), the issue created, or a failure.
ResolvedIssues(call) ==
  IF call[1] = "getIssue"
  THEN {[key |-> k, status |-> "OPEN"] : k \in {call[2]} \cap IssueIds}
  ELSE {[key |-> NewIssueKey, status |-> "OPEN"]}

\* switchMap(getOrCreateIssue) emits: tap, then switchMap(setIssueInProgress).
IssueResolved ==
  /\ pc = "resolving"
  /\ \E i \in ResolvedIssues(calls[Len(calls)]) :
       /\ issue' = i
       /\ calls' = Append(calls, setIssueInProgress(i))
       /\ pc' = "transitioning"
  /\ UNCHANGED <<args, registered, vresult, resolvedOrder, validateState, hasValue,
                 validateErrors, runCmdCalls, result>>
  /\ UNCHANGED gitVars
  /\ UNCHANGED <<lcVars, exitCode, remoteVars, cacheVars>>

\* The issue resolution call fails: the error passes every later operator.
IssueFailed ==
  /\ pc = "resolving"
  /\ pc' = "error"
  /\ UNCHANGED <<args, registered, vresult, resolvedOrder, validateState, hasValue,
                 validateErrors, runCmdCalls, calls, issue, result>>
  /\ UNCHANGED gitVars
  /\ UNCHANGED <<lcVars, exitCode, remoteVars, cacheVars>>

\* setIssueStatus emits the updated issue: withLatestFrom pairs it with the
\* command data and the last switchMap takes the branch decision.
\* createBranch calls git.createBranchAndStashChanges, which starts by fetching.
StatusSet ==
  /\ pc = "transitioning"
  /\ LET updated == [issue EXCEPT !.status = "IN_PROGRESS"]
         d == [issue |-> updated, commandData |-> getCommandData(args)]
     IN /\ issue' = updated
        /\ IF shouldCreateBranch(d)
           THEN /\ branchName' = getBranchNameForIssue(d.issue)
                /\ calls' = calls \o <<<<"getBranchNameForIssue", d.issue.key>>,
                                       <<"createBranchAndStashChanges", branchName'>>,
                                       <<"fetch">>>>
                /\ gitPc' = "fetch"
                /\ pc' = "branching"
                /\ result' = result
           ELSE /\ result' = justReturnTheIssue(d)
                /\ pc' = "done"
                /\ UNCHANGED <<calls, gitPc, branchName>>
  /\ UNCHANGED <<args, registered, vresult, resolvedOrder, validateState, hasValue,
                 validateErrors, runCmdCalls>>
  /\ UNCHANGED <<worktreeDirty, stashList, localBranchExists, remoteTip, remoteRef,
                 localHead, latestHash, checkedOut>>
  /\ UNCHANGED <<lcVars, exitCode, remoteVars, cacheVars>>

StatusFailed ==
  /\ pc = "transitioning"
  /\ pc' = "error"
  /\ UNCHANGED <<args, registered, vresult, resolvedOrder, validateState, hasValue,
                 validateErrors, runCmdCalls, calls, issue, result>>
  /\ UNCHANGED gitVars
  /\ UNCHANGED <<lcVars, exitCode, remoteVars, cacheVars>>

unchangedByGit ==
  UNCHANGED <<lcVars, exitCode, remoteVars, cacheVars, args, registered, vresult, resolvedOrder, validateState, hasValue,
              validateErrors, runCmdCalls, issue, branchName, localBranchExists,
              remoteTip, localHead>>

\* git fetch has completed: the remote-tracking ref is up to date; next, status.
FetchDone ==
  /\ gitPc = "fetch"
  /\ remoteRef' = remoteTip
  /\ calls' = Append(calls, <<"status">>)
  /\ gitPc' = "status"
  /\ unchangedByGit
  /\ UNCHANGED <<pc, result, worktreeDirty, stashList, latestHash, checkedOut>>

\* git status has answered: stash when there are changed files, else go on
\* to read the latest commit of the remote base branch.
StatusDone ==
  /\ gitPc = "status"
  /\ IF shouldStash(worktreeDirty)
     THEN calls' = Append(calls, StashArgs) /\ gitPc' = "stash"
     ELSE calls' = Append(calls, <<"log", "-n1", RemoteBranch>>) /\ gitPc' = "log"
  /\ unchangedByGit
  /\ UNCHANGED <<pc, result, worktreeDirty, stashList, remoteRef, latestHash, checkedOut>>

StashDone ==
  /\ gitPc = "stash"
  /\ stashList' = Append(stashList, StashArgs[4])
  /\ worktreeDirty' = FALSE
  /\ calls' = Append(calls, <<"log", "-n1", RemoteBranch>>)
  /\ gitPc' = "log"
  /\ unchangedByGit
  /\ UNCHANGED <<pc, result, remoteRef, latestHash, checkedOut>>

LogDone ==
  /\ gitPc = "log"
  /\ latestHash' = latestCommit(remoteRef, localHead)
  /\ calls' = Append(calls, <<"checkoutBranch", branchName, latestHash'>>)
  /\ gitPc' = "checkout"
  /\ unchangedByGit
  /\ UNCHANGED <<pc, result, worktreeDirty, stashList, remoteRef, checkedOut>>

\* git checkout -b: fails when the branch exists (BRANCH_ALREADY_EXISTS).
CheckoutDone ==
  /\ gitPc = "checkout"
  /\ IF localBranchExists
     THEN /\ gitPc' = "BRANCH_ALREADY_EXISTS"
          /\ pc' = "error"
          /\ UNCHANGED <<result, checkedOut>>
     ELSE /\ gitPc' = "done"
          /\ checkedOut' = <<branchName, latestHash>>
          /\ pc' = "done"
          /\ result' = VoidResult
  /\ unchangedByGit
  /\ UNCHANGED <<calls, worktreeDirty, stashList, remoteRef, latestHash>>

\* A git command of createBranchAndStashChanges fails (GIT_COMMAND_FAILED).
GitFailed ==
  /\ gitPc \in {"fetch", "status", "stash", "log", "checkout"}
  /\ gitPc' = "GIT_COMMAND_FAILED"
  /\ pc' = "error"
  /\ unchangedByGit
  /\ UNCHANGED <<calls, result, worktreeDirty, stashList, remoteRef, latestHash,
                 checkedOut>>

\* The command has ended: run returns, or catches and exits with 1.
Exit ==
  /\ pc \in {"done", "error"}
  /\ exitCode = -1
  /\ exitCode' = exitCodeOf(waitUntilExit(pc))
  /\ UNCHANGED <<runVars, gitVars, lcVars, remoteVars, cacheVars>>

Next ==
  \/ run
  \/ \E i \in getValidations : \E r \in ValidationOutcomes(i) : ResolveValidation(i, r)
  \/ IssueResolved
  \/ IssueFailed
  \/ StatusSet
  \/ StatusFailed
  \/ FetchDone
  \/ StatusDone
  \/ StashDone
  \/ LogDone
  \/ CheckoutDone
  \/ GitFailed
  \/ Exit

Spec == Init /\ [][Next]_vars

\* Every call that is outstanding completes, and the process ends.
FairSpec == Spec /\ WF_vars(Next)

--------------------------------------------------------------------------
(* Properties of the command pipeline (Spec) *)

ReportedTrue(i) == vresult[i].kind = "next" /\ vresult[i].value = "true"
ReportedFailure(i) == vresult[i].kind = "next" /\ vresult[i].value # "true"
NotTrue(i) == vresult[i] # Pending /\ ~ReportedTrue(i)

CallIdx(names) == {j \in 1..Len(calls) : calls[j][1] \in names}
ResolutionIdx == CallIdx({"getIssue", "createIssueForCurrentUser"})
BranchingOps ==
  {"getBranchNameForIssue", "createBranchAndStashChanges", "fetch", "status",
   "stash", "log", "checkoutBranch"}

\* C1: runCmd is invoked only when every registered validation has completed
\* and reported true; once a validation has reported anything else (or has
\* failed), runCmd has not been and is not invoked, whatever the order in
\* which the validations complete.
C1_ValidationGate ==
  /\ runCmdCalls > 0 => \A i \in getValidations : ReportedTrue(i)
  /\ (\E i \in getValidations : NotTrue(i)) => runCmdCalls = 0

\* Both validations completed with true, the second before the first, and
\* runCmd was invoked.
C1_Witness ==
  /\ registered = 2
  /\ resolvedOrder = <<2, 1>>
  /\ runCmdCalls = 1

\* The position in resolvedOrder of the first validation that did not report true.
BadPositions == {j \in 1..Len(resolvedOrder) : NotTrue(resolvedOrder[j])}
FirstBad ==
  resolvedOrder[CHOOSE j \in BadPositions : \A k \in BadPositions : j <= k]

\* C2: every validation is started before any has completed; validate sends
\* at most one error; when the first validation observed not to report true
\* reported a failure, that error is the message registered with it, also
\* after other validations have resolved; and validate sends no message of a
\* validation unless it is that one.
C2_FirstFailureWins ==
  /\ pc # "init" => \A i \in getValidations : calls[i] = ValidationCall(i)
  /\ Len(validateErrors) <= 1
  /\ (BadPositions # {} /\ ReportedFailure(FirstBad)) =>
       /\ validateState = "error"
       /\ validateErrors = <<ValidationMessage(FirstBad)>>
  /\ validateErrors # <<>> =>
       /\ validateState = "error"
       /\ BadPositions # {}
       /\ validateErrors[1] =
            IF ReportedFailure(FirstBad) THEN ValidationMessage(FirstBad) ELSE "rejected"

\* Both validations reported failure, the second first: its message is the error.
C2_Witness ==
  /\ registered = 2
  /\ resolvedOrder = <<2, 1>>
  /\ ReportedFailure(1) /\ ReportedFailure(2)
  /\ validateErrors = <<ValidationMessage(2)>>

\* C3: cmd resolves the issue first; setIssueStatus(IN_PROGRESS, issue.key) is
\* called only once the resolution has delivered the issue, and
\* createBranchAndStashChanges only once the status transition has delivered;
\* while a step is pending no later step has been started.
C3_StartOrdering ==
  /\ runCmdCalls > 0 => ResolutionIdx # {}
  /\ \A j \in CallIdx({"setIssueStatus"}) :
       /\ issue # NoIssue
       /\ calls[j] = <<"setIssueStatus", "IN_PROGRESS", issue.key>>
       /\ \E k \in ResolutionIdx : k < j
  /\ \A j \in CallIdx({"createBranchAndStashChanges"}) :
       /\ issue.status = "IN_PROGRESS"
       /\ \E k \in CallIdx({"setIssueStatus"}) : k < j
  /\ pc = "resolving" => CallIdx({"setIssueStatus"} \cup BranchingOps) = {}
  /\ pc = "transitioning" => CallIdx(BranchingOps) = {}

\* A created issue was set in progress and its branch created.
C3_Witness ==
  /\ args.create
  /\ pc = "done"
  /\ checkedOut # <<>>
  /\ CallIdx({"createIssueForCurrentUser"}) # {}

CarriesId == "id" \in DOMAIN getCommandData(args).issue

C5_BranchDecision ==
  /\ args.noBranchIssue =>
       /\ CallIdx(BranchingOps) = {}
       /\ gitPc = "idle" /\ stashList = <<>> /\ checkedOut = <<>>
       /\ pc = "done" => result = [kind |-> "issue", issue |-> issue]
  /\ ~args.noBranchIssue =>
       /\ Cardinality(CallIdx({"createBranchAndStashChanges"})) <= 1
       /\ \A j \in CallIdx({"createBranchAndStashChanges"}) :
            calls[j] = <<"createBranchAndStashChanges", getBranchNameForIssue(issue)>>
       /\ pc = "done" =>
            /\ result = VoidResult
            /\ CallIdx({"createBranchAndStashChanges"}) # {}

\* A run flagged no-branch-creation has passed both validations and ended
\* with the issue.
C5_Witness ==
  /\ args.noBranchIssue
  /\ registered = 2
  /\ pc = "done"
  /\ result.kind = "issue"
  /\ result.issue.status = "IN_PROGRESS"

AtMostOnce == \A j, k \in 1..Len(calls) : calls[j][1] = calls[k][1] => j = k
GitFailure == gitPc \in {"GIT_COMMAND_FAILED", "BRANCH_ALREADY_EXISTS"}

\* C6: every tracker or git operation is called at most once; a validation
\* that did not report true or a failed git command leaves the pipeline in
\* its error state without a result; and from the error state no step is
\* started, no result is produced and the state is never left.
C6_FailFast ==
  /\ [](AtMostOnce)
  /\ []((GitFailure \/ \E i \in getValidations : NotTrue(i)) => pc = "error")
  /\ [](pc = "error" => result = NoResult)
  /\ [][pc = "error" =>
          /\ pc' = "error"
          /\ calls' = calls
          /\ runCmdCalls' = runCmdCalls
          /\ result' = result
          /\ gitPc' = gitPc
          /\ issue' = issue]_vars

\* The first validation failed; the second reported true afterwards and
\* nothing was started.
C6_Witness ==
  /\ registered = 2
  /\ resolvedOrder = <<1, 2>>
  /\ ReportedFailure(1) /\ ReportedTrue(2)
  /\ pc = "error"
  /\ runCmdCalls = 0

WasDirty == worktreeDirty \/ stashList # <<>>
StashIdx == CallIdx({"stash"})

\* C10: createBranchAndStashChanges calls stash at most once, with the fixed
\* arguments, and only for a dirty tree; for a dirty tree the stash has been
\* called once the status is known and has completed before checkoutBranch is
\* called.
C10_StashIffDirty ==
  /\ Cardinality(StashIdx) <= 1
  /\ \A j \in StashIdx : WasDirty /\ calls[j] = StashArgs
  /\ (WasDirty /\ gitPc \in {"stash", "log", "checkout", "done", "BRANCH_ALREADY_EXISTS"})
       => StashIdx # {}
  /\ \A j \in CallIdx({"checkoutBranch"}) :
       WasDirty => /\ \E k \in StashIdx : k < j
                   /\ stashList = <<"Auto generated by fotingo">>
                   /\ ~worktreeDirty
  /\ ~WasDirty => StashIdx = {} /\ stashList = <<>>

\* A branch was created over a dirty tree.
C10_Witness ==
  /\ gitPc = "done"
  /\ stashList # <<>>
  /\ checkedOut # <<>>

FirstIdx(names) == CHOOSE j \in CallIdx(names) : \A k \in CallIdx(names) : j <= k

\* C11: createBranchAndStashChanges calls fetch before it reads the latest
\* commit of the remote base branch, and calls checkoutBranch with the
\* requested name and the hash that remotes/origin/master has after that
\* fetch (the remote's tip), whatever HEAD is.
C11_FetchThenBranchFromRemote ==
  /\ \A j \in CallIdx({"log"}) :
       /\ calls[j] = <<"log", "-n1", RemoteBranch>>
       /\ \E k \in CallIdx({"fetch"}) : k < j
  /\ \A j \in CallIdx({"checkoutBranch"}) :
       /\ \E k \in CallIdx({"log"}) : k < j
       /\ remoteRef = remoteTip
       /\ calls[j] = <<"checkoutBranch", getBranchNameForIssue(issue), remoteRef>>
  /\ checkedOut # <<>> => checkedOut = <<branchName, remoteRef>>

\* A branch was created from the remote's tip while HEAD was elsewhere.
C11_Witness ==
  /\ gitPc = "done"
  /\ localHead # remoteTip
  /\ checkedOut = <<"f/abc-123_title", remoteTip>>

\* C12: when a branch of the requested name exists, createBranchAndStashChanges
\* does not create one, and when it has failed with BRANCH_ALREADY_EXISTS it
\* has performed no fetch and no stash and has left no stash entry behind.
C12_NoSideEffectOnExistingBranch ==
  /\ localBranchExists => gitPc # "done"
  /\ gitPc = "BRANCH_ALREADY_EXISTS" =>
       /\ localBranchExists
       /\ CallIdx({"fetch", "stash"}) = {}
       /\ stashList = <<>>

\* C16: the process exits only when the pipeline has ended, with code 0
\* exactly when it ended well and with code 1 exactly when it ended with a
\* failure (of a validation, of the tracker or of git).
C16_ExitCode ==
  /\ exitCode \in {-1, 0, 1}
  /\ exitCode # -1 => pc \in {"done", "error"}
  /\ exitCode = 0 <=> (exitCode # -1 /\ pc = "done")
  /\ exitCode = 1 <=> (exitCode # -1 /\ pc = "error")

\* The command has exited with 1 after branch creation failed.
C16_Witness ==
  /\ exitCode = 1
  /\ gitPc = "BRANCH_ALREADY_EXISTS"

\* C17: the isGitRepo validation reports failure exactly when getRootDir
\* failed with NOT_A_GIT_REPO, and validate's error is its message only then.
C17_IsGitRepoIffNotAGitRepo ==
  (registered >= 1 /\ vresult[1] # Pending) =>
    /\ ReportedFailure(1) <=> vresult[1].raw = "NOT_A_GIT_REPO"
    /\ validateErrors = <<ValidationMessage(1)>> => vresult[1].raw = "NOT_A_GIT_REPO"

\* C18: with no validation registered, validate emits once and completes
\* without an error as soon as it is subscribed, and runCmd is invoked
\* exactly once.
C18_EmptyValidations ==
  (registered = 0 /\ pc # "init") =>
    /\ validateState = "completed"
    /\ hasValue
    /\ validateErrors = <<>>
    /\ runCmdCalls = 1

\* A command without validations has run to its end.
C18_Witness ==
  /\ registered = 0
  /\ pc = "done"
  /\ runCmdCalls = 1

Terminal == pc \in {"done", "error"}

\* C19 as stated: the pipeline is in a terminal state only when no external
\* call is outstanding.
C19_NoTerminalWhileCallHangs ==
  Terminal => PendingValidations = {}

\* C19: when every outstanding call completes, the pipeline reaches a terminal
\* state.  It ends well only when no call is outstanding; it ends with an
\* error while a validation is outstanding only when another validation did
\* not report true; and a step follows only in the step in which an
\* outstanding call completes: validate is left when a validation completes
\* (towards cmd only when none is left), branch creation goes on when its git
\* command completes.
C19_Liveness ==
  /\ <>Terminal
  /\ [](pc = "done" => PendingValidations = {} /\ gitPc \in {"idle", "done"})
  /\ []((pc = "error" /\ PendingValidations # {}) =>
          \E i \in getValidations : NotTrue(i))
  /\ [][/\ (pc = "validating" /\ pc' # pc) =>
             /\ Len(resolvedOrder') > Len(resolvedOrder)
             /\ pc' # "error" => PendingValidations' = {}
        /\ (pc = "branching" /\ (pc' # pc \/ calls' # calls)) => gitPc' # gitPc
        /\ (pc' # pc \/ calls' # calls) => pc \notin {"done", "error"}]_vars

\* The pipeline has ended with the first validation's failure while the
\* second validation is outstanding.
C19_Witness ==
  /\ registered = 2
  /\ pc = "error"
  /\ ReportedFailure(1)
  /\ PendingValidations = {2}

--------------------------------------------------------------------------
(* getLocalChangesInformation *)

\* No command is running.
RunIdle ==
  /\ args = [create |-> FALSE, issueId |-> "ABC-123", noBranchIssue |-> FALSE]
  /\ registered = 0
  /\ vresult = <<>>
  /\ resolvedOrder = <<>>
  /\ validateState = "idle"
  /\ hasValue = FALSE
  /\ validateErrors = <<>>
  /\ runCmdCalls = 0
  /\ pc = "init"
  /\ calls = <<>>
  /\ issue = NoIssue
  /\ result = NoResult
  /\ gitPc = "idle"
  /\ branchName = "none"
  /\ worktreeDirty = FALSE
  /\ stashList = <<>>
  /\ localBranchExists = FALSE
  /\ remoteTip = "547433c"
  /\ remoteRef = "547433c"
  /\ localHead = "547433c"
  /\ latestHash = "none"
  /\ checkedOut = <<>>
  /\ exitCode = -1

LcInit ==
  /\ RemoteIdle
  /\ CacheIdle
  /\ lcData \in LcInputs
  /\ LcIdle
  /\ RunIdle

PendingLookups == {j \in DOMAIN lookups : lookups[j] = "pending"}

\* zip(of(branchInfo), merge(...).pipe(reduce(...))).pipe(map(zipObj(...)))
\* emits once the merge has completed: the accumulated issues, in the order
\* they were accumulated.
LocalChanges(acc) == [branchIssues |-> lcData.branchIssues, issues |-> acc]

\* The call: a disabled tracker answers at once; otherwise getIssue is
\* called for every key that passes the filter and the lookups are merged.
\* A merge of no lookup completes at once.
getLocalChangesInformation ==
  /\ lcState = "idle"
  /\ IF ~trackerEnabled(lcData)
     THEN /\ lcState' = "done"
          /\ lcResult' = LocalChanges(<<>>)
          /\ UNCHANGED <<getIssueCalls, nameChecks, lookups>>
     ELSE LET keys == validIssues(allIssues(lcData))
          IN /\ nameChecks' = allIssues(lcData)
             /\ getIssueCalls' = keys
             /\ lookups' = [j \in 1..Len(keys) |-> "pending"]
             /\ IF Len(keys) = 0
                THEN lcState' = "done" /\ lcResult' = LocalChanges(<<>>)
                ELSE lcState' = "active" /\ lcResult' = lcResult
  /\ UNCHANGED <<lcData, lcAcc>>
  /\ UNCHANGED <<runVars, gitVars, exitCode, remoteVars, cacheVars>>

\* The merge completes when its last lookup does.
LookupCompletes(j, acc) ==
  IF PendingLookups = {j}
  THEN lcState' = "done" /\ lcResult' = LocalChanges(acc)
  ELSE UNCHANGED <<lcState, lcResult>>

\* Lookup j answers with its issue.
LookupFound(j) ==
  /\ lcState = "active"
  /\ lookups[j] = "pending"
  /\ lookups' = [lookups EXCEPT ![j] = "ok"]
  /\ lcAcc' = accumulate(lcAcc, [key |-> getIssueCalls[j]])
  /\ LookupCompletes(j, lcAcc')
  /\ UNCHANGED <<lcData, getIssueCalls, nameChecks>>
  /\ UNCHANGED <<runVars, gitVars, exitCode, remoteVars, cacheVars>>

\* Lookup j fails with the HTTP status code.
LookupFailed(j, code) ==
  /\ lcState = "active"
  /\ lookups[j] = "pending"
  /\ lookups' = [lookups EXCEPT ![j] = code]
  /\ IF catchLookupError(code) = "EMPTY"
     THEN LookupCompletes(j, lcAcc)
     ELSE lcState' = "error" /\ lcResult' = lcResult
  /\ UNCHANGED <<lcData, getIssueCalls, nameChecks, lcAcc>>
  /\ UNCHANGED <<runVars, gitVars, exitCode, remoteVars, cacheVars>>

LcNext ==
  \/ getLocalChangesInformation
  \/ \E j \in DOMAIN lookups : LookupFound(j)
  \/ \E j \in DOMAIN lookups : \E code \in {"404", "500"} : LookupFailed(j, code)

SpecLocalChanges == LcInit /\ [][LcNext]_vars

--------------------------------------------------------------------------
(* Properties of getLocalChangesInformation (SpecLocalChanges) *)

GivenKeys == {allIssues(lcData)[j] : j \in 1..Len(allIssues(lcData))}
ResultKeys == {lcResult.issues[j].key : j \in 1..Len(lcResult.issues)}
LookupsWith(codes) == {j \in DOMAIN lookups : lookups[j] \in codes}

\* C7: getIssue is called only with keys isValidIssueName accepts; no issue of
\* the result has another key; the aggregate fails only when a lookup (of a
\* valid key) failed, so a call given no valid key ends well with no issue.
C7_InvalidKeysSkipped ==
  /\ \A j \in DOMAIN getIssueCalls : isValidIssueName(getIssueCalls[j])
  /\ \A k \in ResultKeys : isValidIssueName(k)
  /\ lcState = "error" =>
       \E j \in DOMAIN lookups :
         lookups[j] \notin {"pending", "ok"} /\ isValidIssueName(getIssueCalls[j])
  /\ (lcState # "idle" /\ \A k \in GivenKeys : ~isValidIssueName(k)) =>
       /\ lcState = "done"
       /\ lcResult.issues = <<>>
       /\ getIssueCalls = <<>>

\* A call given an invalid key and a valid one has ended with the valid
\* key's issue alone.
C7_Witness ==
  /\ lcState = "done"
  /\ "wip" \in GivenKeys
  /\ ResultKeys = {"ABC-1"}

\* C8: a call that ends well has had every lookup answer with an issue or a
\* 404 and returns exactly the issues found (each as often as it was found);
\* the call fails exactly when a lookup has failed with another status.
C8_NotFoundSwallowed ==
  /\ lcState = "done" =>
       /\ \A j \in DOMAIN lookups : lookups[j] \in {"ok", "404"}
       /\ Len(lcResult.issues) = Cardinality(LookupsWith({"ok"}))
       /\ \A k \in LcKeys :
            Cardinality({j \in 1..Len(lcResult.issues) : lcResult.issues[j].key = k})
              = Cardinality({j \in LookupsWith({"ok"}) : getIssueCalls[j] = k})
  /\ lcState = "error" <=> LookupsWith({"500"}) # {}
  /\ (lcState = "active" /\ LookupsWith({"pending"}) = {}) => FALSE

\* One lookup was answered 404 and the call ended with the other's issue.
C8_Witness ==
  /\ lcState = "done"
  /\ LookupsWith({"404"}) # {}
  /\ Len(lcResult.issues) = 1

RECURSIVE FoundUpTo(_)
\* The issues found by lookups 1..n, in call order.
FoundUpTo(n) ==
  IF n = 0 THEN <<>>
  ELSE IF lookups[n] = "ok"
       THEN Append(FoundUpTo(n - 1), [key |-> getIssueCalls[n]])
       ELSE FoundUpTo(n - 1)

\* C9: a call that ends well returns the issues found in the order of the
\* keys given, whatever the order in which the lookups completed.
C9_InputOrder ==
  lcState = "done" => lcResult.issues = FoundUpTo(Len(lookups))

\* C20: with the tracker disabled the call makes no tracker call (no
\* isValidIssueName, no getIssue) and ends at once with the branchInfo it was
\* given and no issue, whatever keys the commits reference or the caller
\* supplies.
C20_TrackerDisabled ==
  (~lcData.enabled /\ lcState # "idle") =>
    /\ lcState = "done"
    /\ nameChecks = <<>>
    /\ getIssueCalls = <<>>
    /\ lookups = <<>>
    /\ lcResult = [branchIssues |-> lcData.branchIssues, issues |-> <<>>]

\* A disabled tracker was given a referenced key and a supplied key.
C20_Witness ==
  /\ ~lcData.enabled
  /\ lcState = "done"
  /\ lcData.branchIssues = <<"ABC-1">>
  /\ lcData.issues = <<"ABC-2">>

\* No element occurs twice in the sequence.
NoRepeat(q) == \A i, j \in 1..Len(q) : q[i] = q[j] => i = j

\* C21: LocalChanges.issues holds each resolved issue at most once and
\* getIssue is called at most once per distinct key in one invocation, also
\* when a key is both in the branch's commits and in the explicit issues.
C21_EachIssueOnce ==
  /\ NoRepeat(getIssueCalls)
  /\ lcState = "done" => NoRepeat(lcResult.issues)

--------------------------------------------------------------------------
(* Git.getRemote *)

LcNotCalled ==
  /\ lcData = [isArray |-> FALSE, branchIssues |-> <<>>, issues |-> <<>>, enabled |-> TRUE]
  /\ LcIdle

RemoteInit ==
  /\ remotes \in RemoteLists
  /\ remoteName \in RemoteNames \cup {"some_remote"}
  /\ remoteState = "idle"
  /\ remoteResult = NoRemoteResult
  /\ CacheIdle
  /\ LcNotCalled
  /\ RunIdle

\* getRemote(name) asks git for its remotes.
GetRemoteCalled ==
  /\ remoteState = "idle"
  /\ remoteState' = "listing"
  /\ UNCHANGED <<remotes, remoteName, remoteResult>>
  /\ UNCHANGED <<runVars, gitVars, lcVars, exitCode, cacheVars>>

\* git has listed them: getRemote settles.
GetRemotesDone ==
  /\ remoteState = "listing"
  /\ remoteState' = "done"
  /\ remoteResult' = getRemote(remotes, remoteName)
  /\ UNCHANGED <<remotes, remoteName>>
  /\ UNCHANGED <<runVars, gitVars, lcVars, exitCode, cacheVars>>

RemoteNext ==
  \/ GetRemoteCalled
  \/ GetRemotesDone

SpecGetRemote == RemoteInit /\ [][RemoteNext]_vars

Configured(name) == \E i \in 1..Len(remotes) : remotes[i] = name

\* C13: getRemote(name) settles with the remote called name when it is
\* configured, with the first configured remote when it is not but a remote
\* exists, and with the error 'The repository does not have a remote' when
\* there is none.
C13_GetRemoteFallback ==
  remoteState = "done" =>
    /\ Configured(remoteName) =>
         remoteResult = [kind |-> "ok", remote |-> remoteName]
    /\ (~Configured(remoteName) /\ Len(remotes) > 0) =>
         remoteResult = [kind |-> "ok", remote |-> remotes[1]]
    /\ Len(remotes) = 0 =>
         remoteResult =
           [kind |-> "error", remote |-> "The repository does not have a remote"]

\* A remote that is not configured was asked for and the first one returned.
C13_Witness ==
  /\ remoteState = "done"
  /\ remoteName = "some_remote"
  /\ remotes = <<"upstream", "origin">>
  /\ remoteResult.remote = "upstream"

--------------------------------------------------------------------------
(* cacheable.ts: cachedFunction and clearCache *)

CacheInit ==
  /\ isCacheDisabled \in BOOLEAN
  /\ minutes \in {0, 1}
  /\ now = 0
  /\ keyv = [k \in CacheArgs |-> NoEntry]
  /\ cachedCalls = [c \in 1..MaxCalls |-> IdleCall]
  /\ produced = [k \in CacheArgs |-> {}]
  /\ clearedNoWrite = [k \in CacheArgs |-> FALSE]
  /\ failedNoCall = [k \in CacheArgs |-> FALSE]
  /\ RemoteIdle
  /\ LcNotCalled
  /\ RunIdle

unchangedByCache ==
  UNCHANGED <<runVars, gitVars, lcVars, exitCode, remoteVars, isCacheDisabled, minutes>>

\* The entry of key k is there and has not expired.
Live(k) == keyvGet(keyv[k], now) # NoValue

\* The decorated method is called with argument a: with the cache disabled
\* the method is invoked at once, else the store is asked for the key. Calls
\* are numbered in the order they are made.
CallCached(c, a) ==
  /\ cachedCalls[c].pc = "idle"
  /\ \A d \in 1..(c - 1) : cachedCalls[d].pc # "idle"
  /\ cachedCalls' =
       [cachedCalls EXCEPT ![c] =
          [@ EXCEPT !.pc = IF isCacheDisabled THEN "method" ELSE "get",
                    !.arg = a,
                    !.invoked = isCacheDisabled,
                    !.liveAtStart = ~isCacheDisabled /\ Live(a),
                    !.nextAfterFailure = failedNoCall[a]]]
  /\ failedNoCall' = [failedNoCall EXCEPT ![a] = FALSE]
  /\ UNCHANGED <<now, keyv, produced, clearedNoWrite>>
  /\ unchangedByCache

\* keyv.get(key) resolves: a truthy value is returned, else the method is
\* invoked.
GetDone(c) ==
  /\ cachedCalls[c].pc = "get"
  /\ LET a == cachedCalls[c].arg
         cachedValue == keyvGet(keyv[a], now)
     IN cachedCalls' =
          [cachedCalls EXCEPT ![c] =
             [@ EXCEPT !.cached = cachedValue,
                       !.hit = Live(a),
                       !.readAfterClear = clearedNoWrite[a],
                       !.pc = IF truthy(cachedValue) THEN "done" ELSE "method",
                       !.invoked = ~truthy(cachedValue),
                       !.result = IF truthy(cachedValue) THEN cachedValue ELSE NoValue]]
  /\ UNCHANGED <<now, keyv, produced, clearedNoWrite, failedNoCall>>
  /\ unchangedByCache

\* The method resolves with v: with the cache disabled v is returned, else
\* keyv.set is called.
MethodDone(c, v) ==
  /\ cachedCalls[c].pc = "method"
  /\ v \in MethodResults(cachedCalls[c].arg)
  /\ produced' = [produced EXCEPT ![cachedCalls[c].arg] = @ \cup {v}]
  /\ cachedCalls' =
       [cachedCalls EXCEPT ![c] =
          [@ EXCEPT !.pc = IF isCacheDisabled THEN "done" ELSE "set",
                    !.result = v]]
  /\ UNCHANGED <<now, keyv, clearedNoWrite, failedNoCall>>
  /\ unchangedByCache

\* The method rejects: the call rejects and nothing is stored.
MethodFailed(c) ==
  /\ cachedCalls[c].pc = "method"
  /\ cachedCalls' = [cachedCalls EXCEPT ![c] = [@ EXCEPT !.pc = "failed"]]
  /\ failedNoCall' = [failedNoCall EXCEPT ![cachedCalls[c].arg] = TRUE]
  /\ keyv' = storeOnFailure(keyv, cachedCalls[c].arg)
  /\ UNCHANGED <<now, produced, clearedNoWrite>>
  /\ unchangedByCache

\* keyv.set resolves: the entry is written and the result returned.
SetDone(c) ==
  /\ cachedCalls[c].pc = "set"
  /\ LET a == cachedCalls[c].arg
     IN /\ keyv' = [keyv EXCEPT ![a] = entry(cachedCalls[c].result, minutes, now)]
        /\ clearedNoWrite' = [clearedNoWrite EXCEPT ![a] = FALSE]
  /\ cachedCalls' = [cachedCalls EXCEPT ![c] = [@ EXCEPT !.pc = "done"]]
  /\ UNCHANGED <<now, produced, failedNoCall>>
  /\ unchangedByCache

\* clearCache()
clearCache ==
  /\ keyv' = clearStore(keyv)
  /\ clearedNoWrite' = [k \in CacheArgs |-> TRUE]
  /\ cachedCalls' =
       [c \in 1..MaxCalls |->
          IF cachedCalls[c].pc \in {"method", "set"}
          THEN [cachedCalls[c] EXCEPT !.clearedDuring = TRUE]
          ELSE cachedCalls[c]]
  /\ UNCHANGED <<now, produced, failedNoCall>>
  /\ unchangedByCache

\* A minute passes. The clock is read only against an entry's expiry, so
\* time is let pass only while an entry can expire.
Tick ==
  /\ now < MaxTime
  /\ \E k \in CacheArgs : keyv[k].expires # -1
  /\ now' = now + 1
  /\ UNCHANGED <<keyv, cachedCalls, produced, clearedNoWrite, failedNoCall>>
  /\ unchangedByCache

\* The store is a file in the user's home, shared by every fotingo process:
\* another process's call of the method stores its result v for key a.
StoredByOtherProcess(a, v) ==
  /\ ~isCacheDisabled
  /\ keyv' = [keyv EXCEPT ![a] = entry(v, minutes, now)]
  /\ produced' = [produced EXCEPT ![a] = @ \cup {v}]
  /\ clearedNoWrite' = [clearedNoWrite EXCEPT ![a] = FALSE]
  /\ UNCHANGED <<now, cachedCalls, failedNoCall>>
  /\ unchangedByCache

CacheNext ==
  \/ \E c \in 1..MaxCalls, a \in CacheArgs : CallCached(c, a)
  \/ \E c \in 1..MaxCalls : GetDone(c)
  \/ \E c \in 1..MaxCalls : \E v \in MethodResults(cachedCalls[c].arg) : MethodDone(c, v)
  \/ \E c \in 1..MaxCalls : MethodFailed(c)
  \/ \E c \in 1..MaxCalls : SetDone(c)
  \/ clearCache
  \/ Tick

SpecCache == CacheInit /\ [][CacheNext]_vars

\* The key whose calls are followed when the method rejects: calls with
\* another key neither read nor write its entry.
FailingArg == "ABC-1"

\* The calls with one key, in this process and in another one.
SharedNext ==
  \/ \E c \in 1..MaxCalls : CallCached(c, FailingArg)
  \/ \E c \in 1..MaxCalls : GetDone(c)
  \/ \E c \in 1..MaxCalls : \E v \in MethodResults(FailingArg) : MethodDone(c, v)
  \/ \E c \in 1..MaxCalls : MethodFailed(c)
  \/ \E c \in 1..MaxCalls : SetDone(c)
  \/ \E v \in MethodResults(FailingArg) : StoredByOtherProcess(FailingArg, v)
  \/ clearCache

\* Entries are stored without a TTL: an expired entry reads as no entry.
SharedInit == CacheInit /\ minutes = 0

SpecSharedCache == SharedInit /\ [][SharedNext]_vars

\* C14: with the cache enabled, a call made while the store holds an
\* unexpired, uncleared entry for its key returns the stored value and does
\* not invoke the method.
C14_CachedCallSkipsMethod ==
  \A c \in 1..MaxCalls :
    (cachedCalls[c].liveAtStart /\ cachedCalls[c].hit) =>
      /\ ~cachedCalls[c].invoked
      /\ cachedCalls[c].result = cachedCalls[c].cached

\* C15: clearCache never makes a call fail or return anything but a result
\* of the method for the call's key, and a call that reads the store after a
\* clear with no later write of its key invokes the method.
C15_SafeToClear ==
  \A c \in 1..MaxCalls :
    /\ cachedCalls[c].pc = "failed" => cachedCalls[c].invoked
    /\ cachedCalls[c].pc = "done" =>
         cachedCalls[c].result \in produced[cachedCalls[c].arg]
    /\ cachedCalls[c].readAfterClear => cachedCalls[c].invoked

\* One call returned its result although the store was cleared between its
\* read and its write, and a call that read after a clear invoked the method.
C15_Witness ==
  \E c, d \in 1..MaxCalls :
    /\ cachedCalls[c].pc = "done"
    /\ cachedCalls[c].clearedDuring
    /\ cachedCalls[c].result \in produced[cachedCalls[c].arg]
    /\ cachedCalls[d].readAfterClear
    /\ cachedCalls[d].invoked
    /\ cachedCalls[d].pc = "done"

--------------------------------------------------------------------------
(* A rejecting method (SpecSharedCache) *)

\* The call has read the store.
PastRead(d) == cachedCalls[d].pc \notin {"idle", "get"}

\* C22 as stated: when the method rejects, the call rejects, and the next
\* call with the same key invokes the method again.
C22_NextCallInvokes ==
  \A d \in 1..MaxCalls :
    /\ cachedCalls[d].pc = "failed" => cachedCalls[d].result = NoValue
    /\ (cachedCalls[d].nextAfterFailure /\ PastRead(d)) => cachedCalls[d].invoked

\* C22: when the method rejects, the call rejects without a result, the
\* rejecting call writes nothing to the store, then or later, and the next
\* call with the same key invokes the method again unless the store holds,
\* when it reads it, a result of the method stored by another call.
C22_FailureNotCached ==
  /\ [](\A d \in 1..MaxCalls :
          /\ cachedCalls[d].pc = "failed" =>
               cachedCalls[d].invoked /\ cachedCalls[d].result = NoValue
          /\ (cachedCalls[d].nextAfterFailure /\ PastRead(d) /\ ~cachedCalls[d].invoked) =>
               /\ cachedCalls[d].hit
               /\ truthy(cachedCalls[d].result)
               /\ cachedCalls[d].result \in produced[cachedCalls[d].arg])
  /\ [][\A c \in 1..MaxCalls :
          /\ (cachedCalls[c].pc # "failed" /\ cachedCalls'[c].pc = "failed") =>
               cachedCalls[c].pc = "method" /\ keyv' = keyv
          /\ cachedCalls[c].pc = "failed" => cachedCalls'[c] = cachedCalls[c]]_vars

\* The method rejected, nothing was stored, and the next call with the key
\* invoked the method and returned its result.
C22_Witness ==
  \E c, d \in 1..MaxCalls :
    /\ cachedCalls[c].pc = "failed"
    /\ cachedCalls[d].arg = cachedCalls[c].arg
    /\ cachedCalls[d].nextAfterFailure
    /\ ~cachedCalls[d].hit
    /\ cachedCalls[d].invoked
    /\ cachedCalls[d].pc = "done"
====
